---- MODULE Spec2Model ----
(***************************************************************************)
(* A model of finance_tracker.py: the transactions.csv store, the date     *)
(* parser, add_transaction, load_transactions_df, category_summary and     *)
(* weekly_summaries.                                                       *)
(*                                                                         *)
(* Text is a sequence of one-character strings, so that strip() and        *)
(* lower() are computed.  A date text is the record of its three numeric   *)
(* fields and its separator; a field is four digits wide iff it lies in    *)
(* 1000..9999.  A date object is [year, month, day]; date arithmetic goes  *)
(* through the proleptic Gregorian ordinal, as in CPython's datetime.      *)
(* Amounts are exact decimals: an amount argument is counted in            *)
(* thousandths, a stored amount in hundredths (cents).  Float specials     *)
(* (nan, inf) and binary rounding error of sums are outside the model.     *)
(***************************************************************************)
EXTENDS Integers, Sequences, FiniteSets, TLC

VARIABLES csvExists, csvRows, out

vars == <<csvExists, csvRows, out>>

(***************************************************************************)
(* Bounds of the model.                                                    *)
(***************************************************************************)
MaxRows == 2

MaxWeeks == 2

MaxTopN == 2

(***************************************************************************)
(* Small helpers.                                                          *)
(***************************************************************************)
Min(S) == CHOOSE x \in S : \A y \in S : x <= y

Max(S) == CHOOSE x \in S : \A y \in S : x >= y

Range(s) == {s[i] : i \in 1..Len(s)}

\* All orderings of the finite set S, as sequences without repetition.
Perms(S) ==
  {p \in [1..Cardinality(S) -> S] : \A i, j \in 1..Cardinality(S) : p[i] = p[j] => i = j}

(***************************************************************************)
(* str.strip() and str.lower() on the characters the inputs use.           *)
(***************************************************************************)
LowerChar(c) ==
  CASE c = "E" -> "e"
    [] c = "X" -> "x"
    [] c = "P" -> "p"
    [] c = "N" -> "n"
    [] c = "S" -> "s"
    [] c = "I" -> "i"
    [] c = "F" -> "f"
    [] c = "R" -> "r"
    [] c = "A" -> "a"
    [] OTHER -> c

lower(s) == [i \in 1..Len(s) |-> LowerChar(s[i])]

strip(s) ==
  LET idx == {i \in 1..Len(s) : s[i] # " "}
  IN  IF idx = {} THEN <<>> ELSE SubSeq(s, Min(idx), Max(idx))

S_income == <<"i", "n", "c", "o", "m", "e">>

S_expense == <<"e", "x", "p", "e", "n", "s", "e">>

S_uncategorized == <<"u", "n", "c", "a", "t", "e", "g", "o", "r", "i", "z", "e", "d">>

(***************************************************************************)
(* Calendar: datetime.date's ordinal arithmetic.                           *)
(***************************************************************************)
IsLeap(y) == y % 4 = 0 /\ (y % 100 # 0 \/ y % 400 = 0)

DAYS_IN_MONTH == <<31, 28, 31, 30, 31, 30, 31, 31, 30, 31, 30, 31>>

DAYS_BEFORE_MONTH == <<0, 31, 59, 90, 120, 151, 181, 212, 243, 273, 304, 334>>

DaysInMonth(y, m) == IF m = 2 /\ IsLeap(y) THEN 29 ELSE DAYS_IN_MONTH[m]

DaysBeforeYear(y) == (y - 1) * 365 + (y - 1) \div 4 - (y - 1) \div 100 + (y - 1) \div 400

DaysBeforeMonth(y, m) == DAYS_BEFORE_MONTH[m] + (IF m > 2 /\ IsLeap(y) THEN 1 ELSE 0)

\* date.toordinal(): 0001-01-01 is day 1.
toordinal(d) == DaysBeforeYear(d.year) + DaysBeforeMonth(d.year, d.month) + d.day

\* date.fromordinal(n), CPython's _ord2ymd.
fromordinal(n) ==
  LET n0 == n - 1
      n400 == n0 \div 146097
      r400 == n0 % 146097
      n100 == r400 \div 36524
      r100 == r400 % 36524
      n4 == r100 \div 1461
      r4 == r100 % 1461
      n1 == r4 \div 365
      r1 == r4 % 365
      year == n400 * 400 + 1 + n100 * 100 + n4 * 4 + n1
      m0 == (r1 + 50) \div 32
      month == IF DaysBeforeMonth(year, m0) > r1 THEN m0 - 1 ELSE m0
  IN  IF n1 = 4 \/ n100 = 4
        THEN [year |-> year - 1, month |-> 12, day |-> 31]
        ELSE [year |-> year, month |-> month,
              day |-> r1 - DaysBeforeMonth(year, month) + 1]

\* date.weekday(): Monday is 0.
weekday(d) == (toordinal(d) + 6) % 7

\* d - timedelta(days=n)
MinusDays(d, n) == fromordinal(toordinal(d) - n)

\* d + timedelta(days=n)
PlusDays(d, n) == fromordinal(toordinal(d) + n)

DateLe(a, b) == toordinal(a) <= toordinal(b)

(***************************************************************************)
(* parse_date and the formats it tries.  An optional value is a set with   *)
(* at most one element: {} is "raised" (or None for an argument).          *)
(***************************************************************************)
DATE_FORMAT == "%Y-%m-%d"

FORMATS == <<DATE_FORMAT, "%d-%m-%Y", "%d/%m/%Y", "%Y/%m/%d">>

\* datetime.strptime(s, fmt).date(): {} when s does not match fmt.
strptime(s, fmt) ==
  LET yFirst == fmt \in {"%Y-%m-%d", "%Y/%m/%d"}
      fsep == IF fmt \in {"%Y-%m-%d", "%d-%m-%Y"} THEN "-" ELSE "/"
      y == IF yFirst THEN s.f1 ELSE s.f3
      m == s.f2
      d == IF yFirst THEN s.f3 ELSE s.f1
  IN  IF /\ s.sep = fsep
         /\ y \in 1000..9999
         /\ m \in 1..12
         /\ d >= 1
         /\ d <= DaysInMonth(y, m)
        THEN {[year |-> y, month |-> m, day |-> d]}
        ELSE {}

parse_date(s) ==
  LET ok == {i \in 1..Len(FORMATS) : strptime(s, FORMATS[i]) # {}}
  IN  IF ok = {} THEN {} ELSE strptime(s, FORMATS[Min(ok)])

\* d.strftime(DATE_FORMAT)
strftime(d) == [f1 |-> d.year, f2 |-> d.month, f3 |-> d.day, sep |-> "-"]

(***************************************************************************)
(* pandas' CSV layer.  read_csv turns a text cell that is one of its       *)
(* default NA markers into NaN (a missing value); to_csv writes NaN as the *)
(* empty cell.  Date cells stay text, amounts stay numbers.                *)
(***************************************************************************)
NaN == <<"float:nan">>

NA_VALUES ==
  { <<>>, <<"N", "A">>, <<"N", "/", "A">>, <<"n", "/", "a">>, <<"N", "a", "N">>,
    <<"n", "a", "n">>, <<"n", "u", "l", "l">>, <<"N", "U", "L", "L">> }

ReadCell(t) == IF t \in NA_VALUES THEN NaN ELSE t

WriteCell(v) == IF v = NaN THEN <<>> ELSE v

\* pd.read_csv(CSV_FILE): the data rows of the file as a frame.
read_csv(rows) ==
  [i \in 1..Len(rows) |->
     [rows[i] EXCEPT !.category = ReadCell(@), !.description = ReadCell(@)]]

\* df.to_csv(CSV_FILE, index=False): the data rows written.
to_csv(df) ==
  [i \in 1..Len(df) |->
     [df[i] EXCEPT !.category = WriteCell(@), !.description = WriteCell(@)]]

\* Series.fillna(v)
fillna(x, v) == IF x = NaN THEN v ELSE x

(***************************************************************************)
(* ensure_csv_exists: a missing file is created holding the header only.   *)
(***************************************************************************)
ensure_csv_exists(exists, rows) ==
  [exists |-> TRUE, rows |-> IF exists THEN rows ELSE <<>>]

(***************************************************************************)
(* add_transaction.  An amount argument is [num, milli]: whether float()   *)
(* accepts the text, and its value in thousandths.                         *)
(***************************************************************************)
\* round(x, 2) of x thousandths, in cents: to nearest, an exact tie to even.
Round2(milli) ==
  LET q == milli \div 10
      r == milli % 10
  IN  IF r < 5 THEN q
      ELSE IF r > 5 THEN q + 1
      ELSE IF q % 2 = 0 THEN q ELSE q + 1

\* tx_type.strip().lower()
NormKind(tx_type) == lower(strip(tx_type))

\* The exception add_transaction raises for these arguments, or "none".
AddError(a) ==
  IF parse_date(a.tx_date) = {} THEN "ValueError: date"
  ELSE IF NormKind(a.tx_type) \notin {S_income, S_expense} THEN "ValueError: type"
  ELSE IF ~a.amount.num THEN "ValueError: amount"
  ELSE "none"

\* category.strip() or "uncategorized"
NormCategory(category) == IF strip(category) = <<>> THEN S_uncategorized ELSE strip(category)

\* The row dictionary add_transaction builds.
AddRow(a) ==
  [ date |-> strftime(CHOOSE d \in parse_date(a.tx_date) : TRUE),
    type |-> NormKind(a.tx_type),
    amount |-> Round2(a.amount.milli),
    category |-> NormCategory(a.category),
    description |-> strip(a.description) ]

\* read_csv, concat of the new row, to_csv: the rows of the rewritten file.
Rewrite(rows, row) == to_csv(Append(read_csv(rows), row))

(***************************************************************************)
(* load_transactions_df.                                                   *)
(***************************************************************************)
\* pd.to_datetime(text, format=DATE_FORMAT).date(): {} when it raises.
to_datetime(text) == strptime(text, DATE_FORMAT)

LoadError(rows) == \E i \in 1..Len(rows) : to_datetime(rows[i].date) = {}

\* One row of the frame with its columns coerced.
Typed(r) ==
  [ date |-> CHOOSE d \in to_datetime(r.date) : TRUE,
    type |-> lower(r.type),
    amount |-> r.amount,
    category |-> fillna(r.category, S_uncategorized),
    description |-> fillna(r.description, <<>>) ]

\* df.sort_values(col): the default kind is quicksort, which is not stable:
\* every ordering of the rows that is ascending in the key may come out.
SortOrders(df) ==
  {p \in Perms(1..Len(df)) :
     \A i \in 1..(Len(df) - 1) : DateLe(df[p[i]].date, df[p[i + 1]].date)}

sort_values_date(df) ==
  {[i \in 1..Len(df) |-> df[p[i]]] : p \in SortOrders(df)}

\* The frames load_transactions_df may return for a file that loads.
load_transactions_df(rows) ==
  IF rows = <<>> THEN {<<>>}
  ELSE LET df == read_csv(rows)
       IN  sort_values_date([i \in 1..Len(df) |-> Typed(df[i])])

(***************************************************************************)
(* category_summary.  start_date and end_date are optional date texts,     *)
(* top_n an optional integer ({} is None).                                 *)
(***************************************************************************)
RECURSIVE SumAmounts(_)
SumAmounts(df) == IF df = <<>> THEN 0 ELSE df[1].amount + SumAmounts(Tail(df))

\* df[df["date"] >= sd] when start_date is truthy, then the same for end_date.
InRange(df, start_date, end_date) ==
  LET from(r) == \A sd \in start_date : \A d \in parse_date(sd) : DateLe(d, r.date)
      upto(r) == \A ed \in end_date : \A d \in parse_date(ed) : DateLe(r.date, d)
      keep(r) == from(r) /\ upto(r)
  IN  SelectSeq(df, keep)

\* Mutant of Expenses: the kind filter is dropped.
ExpensesUnfiltered(df) == df

\* df[df["type"] == "expense"]
Expenses(df) ==
  LET isExpense(r) == r.type = S_expense
  IN  SelectSeq(df, isExpense)

\* df[df["type"] == "income"]
Incomes(df) ==
  LET isIncome(r) == r.type = S_income
  IN  SelectSeq(df, isIncome)

\* .groupby("category")["amount"].sum(): one entry per category.
GroupSum(df) ==
  LET of(c) == LET inCat(r) == r.category = c IN SelectSeq(df, inCat)
  IN  {[category |-> c, total |-> SumAmounts(of(c))] : c \in {df[i].category : i \in 1..Len(df)}}

\* exp.sort_values(ascending=False): descending totals, ties in any order.
SortDescending(groups) ==
  {p \in Perms(groups) : \A i \in 1..(Cardinality(groups) - 1) : p[i].total >= p[i + 1].total}

\* if top_n: exp = exp.head(top_n)
head(exp, top_n) ==
  IF top_n # {} /\ top_n # {0}
    THEN SubSeq(exp, 1, Min({Len(exp), CHOOSE n \in top_n : TRUE}))
    ELSE exp

\* Whether category_summary raises on a loaded, non-empty frame.
RangeError(start_date, end_date) ==
  \E t \in start_date \cup end_date : parse_date(t) = {}

\* The mappings category_summary may return for the frame df.
category_summary(df, start_date, end_date, top_n) ==
  IF df = <<>> THEN {<<>>}
  ELSE {head(exp, top_n) :
          exp \in SortDescending(GroupSum(Expenses(InRange(df, start_date, end_date))))}

(***************************************************************************)
(* week_bounds_for and weekly_summaries.  Sums of cents are exact, so the  *)
(* round(., 2) of each output leaves it as it is.                          *)
(***************************************************************************)
week_bounds_for(dt) ==
  LET start == MinusDays(dt, weekday(dt))
  IN  [start |-> start, end |-> PlusDays(start, 6)]

\* Mutant of CurrentMonday: isoweekday() (Monday is 1) in place of weekday().
CurrentMondayIso(today) == MinusDays(today, weekday(today) + 1)

\* today - timedelta(days=today.weekday())
CurrentMonday(today) == MinusDays(today, weekday(today))

\* Mutant of WeekEntry: week_end is week_start + 7 days, so weeks overlap.
WeekEntryOverlapping(df, current_monday, i) ==
  LET week_start == MinusDays(current_monday, 7 * i)
      week_end == PlusDays(week_start, 7)
      inWeek(r) == DateLe(week_start, r.date) /\ DateLe(r.date, week_end)
      week_df == SelectSeq(df, inWeek)
      income == SumAmounts(Incomes(week_df))
      expense == SumAmounts(Expenses(week_df))
  IN  [ week_start |-> week_start, week_end |-> week_end,
        income |-> income, expense |-> expense, net |-> income - expense ]

\* The dictionary of loop index i (0 is the current week).
WeekEntry(df, current_monday, i) ==
  LET week_start == MinusDays(current_monday, 7 * i)
      week_end == PlusDays(week_start, 6)
      inWeek(r) == DateLe(week_start, r.date) /\ DateLe(r.date, week_end)
      week_df == SelectSeq(df, inWeek)
      income == SumAmounts(Incomes(week_df))
      expense == SumAmounts(Expenses(week_df))
  IN  [ week_start |-> week_start, week_end |-> week_end,
        income |-> income, expense |-> expense, net |-> income - expense ]

weekly_summaries(df, weeks, today) ==
  [k \in 1..weeks |-> WeekEntry(df, CurrentMonday(today), k - 1)]

(***************************************************************************)
(* Inputs.                                                                 *)
(***************************************************************************)
Text(a, b, c, sep) == [f1 |-> a, f2 |-> b, f3 |-> c, sep |-> sep]

Date(y, m, d) == [year |-> y, month |-> m, day |-> d]

Amount(milli) == [num |-> TRUE, milli |-> milli]

NotANumber == [num |-> FALSE, milli |-> 0]

Call(d, k, a, c, s) ==
  [tx_date |-> d, tx_type |-> k, amount |-> a, category |-> c, description |-> s]

S_Food == <<"F", "o", "o", "d">>

\* The add_transaction calls the model makes: the four date formats, a date
\* shared by three calls, kinds in mixed case and padded, amounts that round
\* down and up, a negative amount, blank, padded and NA-like categories, and
\* one call for each way of failing.
Calls ==
  { Call(Text(2025, 6, 9, "-"), S_expense, Amount(100000), S_Food, <<>>),
    Call(Text(2025, 6, 9, "/"), <<"E", "X", "P", "E", "N", "S", "E">>, Amount(50004),
         <<" ", "F", "o", "o", "d", " ">>, <<" ", "x", " ">>),
    Call(Text(15, 6, 2025, "-"), S_expense, Amount(100000), <<"N", "A">>, <<>>),
    Call(Text(16, 6, 2025, "/"), <<" ", "I", "n", "c", "o", "m", "e">>, Amount(30006),
         S_Food, <<>>),
    Call(Text(9, 6, 2025, "-"), S_expense, Amount(-5000), <<" ">>, <<>>),
    Call(Text(6, 15, 2025, "/"), S_expense, Amount(100000), S_Food, <<>>),
    Call(Text(2025, 6, 9, "-"), <<"g", "i", "f", "t">>, Amount(100000), S_Food, <<>>),
    Call(Text(2025, 6, 9, "-"), S_expense, NotANumber, S_Food, <<>>) }

\* Optional start_date arguments of category_summary: None, a date, a bad text.
StartArgs == {{}, {Text(2025, 6, 10, "-")}, {Text(6, 15, 2025, "/")}}

\* Optional end_date arguments of category_summary: None, a date.
EndArgs == {{}, {Text(15, 6, 2025, "/")}}

TopNArgs == {{}} \cup {{n} : n \in 0..MaxTopN}

\* Values of date.today(): a Thursday, the Monday after it, a Sunday.
Todays == {Date(2025, 6, 12), Date(2025, 6, 16), Date(2025, 6, 22)}

(***************************************************************************)
(* The operations.  out is what the last call returned or raised.          *)
(***************************************************************************)
Returned(op, args, val) == [op |-> op, err |-> "none", args |-> args, val |-> val]

Raised(op, args, err) == [op |-> op, err |-> err, args |-> args, val |-> <<>>]

Init ==
  /\ csvExists = FALSE
  /\ csvRows = <<>>
  /\ out = Returned("start", <<>>, <<>>)

\* Mutant of add_transaction: the amount is converted after the file is
\* rewritten, so a non-numeric amount leaves a row behind before it raises.
add_transaction_write_first(a) ==
  LET file == ensure_csv_exists(csvExists, csvRows)
      early == IF AddError(a) = "ValueError: amount" THEN "none" ELSE AddError(a)
  IN  /\ csvExists' = file.exists
      /\ IF early # "none"
           THEN /\ csvRows' = file.rows
                /\ out' = Raised("add", a, early)
           ELSE /\ Len(file.rows) < MaxRows
                /\ csvRows' = Rewrite(file.rows, AddRow(a))
                /\ out' = IF AddError(a) = "none"
                            THEN Returned("add", a, <<>>)
                            ELSE Raised("add", a, AddError(a))

add_transaction(a) ==
  LET file == ensure_csv_exists(csvExists, csvRows)
  IN  /\ csvExists' = file.exists
      /\ IF AddError(a) # "none"
           THEN /\ csvRows' = file.rows
                /\ out' = Raised("add", a, AddError(a))
           ELSE /\ Len(file.rows) < MaxRows
                /\ csvRows' = Rewrite(file.rows, AddRow(a))
                /\ out' = Returned("add", a, <<>>)

\* Every reader starts with load_transactions_df, which ensures the file;
\* outcomes is the set of results the reader may have on the file's rows.
Load(outcomes) ==
  LET file == ensure_csv_exists(csvExists, csvRows)
  IN  /\ csvExists' = file.exists
      /\ csvRows' = file.rows
      /\ out' \in outcomes

\* The rows load_transactions_df reads.
FileRows == ensure_csv_exists(csvExists, csvRows).rows

view_transactions ==
  Load(IF LoadError(FileRows)
         THEN {Raised("view", <<>>, "ValueError: load")}
         ELSE {Returned("view", <<>>, df) : df \in load_transactions_df(FileRows)})

CategorySummary(start_date, end_date, top_n) ==
  LET args == [start_date |-> start_date, end_date |-> end_date, top_n |-> top_n]
      results(df) ==
        IF df # <<>> /\ RangeError(start_date, end_date)
          THEN {Raised("category", args, "ValueError: date")}
          ELSE {Returned("category", args, v) :
                  v \in category_summary(df, start_date, end_date, top_n)}
  IN  Load(IF LoadError(FileRows)
             THEN {Raised("category", args, "ValueError: load")}
             ELSE UNION {results(df) : df \in load_transactions_df(FileRows)})

WeeklySummaries(weeks, today) ==
  LET args == [weeks |-> weeks, today |-> today]
  IN  Load(IF LoadError(FileRows)
             THEN {Raised("weekly", args, "ValueError: load")}
             ELSE {Returned("weekly", args, weekly_summaries(df, weeks, today)) :
                     df \in load_transactions_df(FileRows)})

Next ==
  \/ \E a \in Calls : add_transaction(a)
  \/ view_transactions
  \/ \E sd \in StartArgs, ed \in EndArgs, n \in TopNArgs : CategorySummary(sd, ed, n)
  \/ \E w \in 0..MaxWeeks, t \in Todays : WeeklySummaries(w, t)

Spec == Init /\ [][Next]_vars

(***************************************************************************)
(* A second specification: the program started on a transactions.csv that  *)
(* it did not write itself (generate_500_data.py writes one; the file is   *)
(* plain text a user may edit), with dates in any of the texts below.      *)
(***************************************************************************)
ExternalRow(text) ==
  [date |-> text, type |-> S_expense, amount |-> 10000, category |-> S_Food,
   description |-> <<>>]

ExternalDates ==
  { Text(2025, 6, 9, "-"), Text(15, 6, 2025, "-"), Text(16, 6, 2025, "/"),
    Text(2025, 6, 2, "/"), Text(6, 15, 2025, "/") }

ExternalFiles ==
  UNION {[1..n -> {ExternalRow(t) : t \in ExternalDates}] : n \in 0..MaxRows}

InitExternal ==
  /\ csvExists = TRUE
  /\ csvRows \in ExternalFiles
  /\ out = Returned("start", <<>>, <<>>)

SpecExternal == InitExternal /\ [][Next]_vars

(***************************************************************************)
(* What the properties below read off a state, written without the        *)
(* operations' own definitions where the property is about them.           *)
(***************************************************************************)
\* The calendar date of stored row i (files the program wrote hold DATE_FORMAT).
StoredDate(i) == CHOOSE d \in parse_date(csvRows[i].date) : TRUE

\* The category a stored row is loaded with.
LoadedCategory(r) == IF r.category \in NA_VALUES THEN S_uncategorized ELSE r.category

\* The sum of the amounts of rows.
RECURSIVE SumOf(_)
SumOf(rows) == IF rows = <<>> THEN 0 ELSE Head(rows).amount + SumOf(Tail(rows))

RECURSIVE SumTotals(_)
SumTotals(v) == IF v = <<>> THEN 0 ELSE v[1].total + SumTotals(Tail(v))

\* The arguments add_transaction rejects.
BadArgs(a) ==
  \/ parse_date(a.tx_date) = {}
  \/ lower(strip(a.tx_type)) \notin {S_income, S_expense}
  \/ ~a.amount.num

\* The ordinal of the Monday of today's week.
MondayOrdinal(today) ==
  CHOOSE m \in (toordinal(today) - 6)..toordinal(today) : (m + 6) % 7 = 0

\* C1 (as claimed): a failing add_transaction raises and leaves the persisted
\* store exactly as it was, a store that does not exist yet included.
C1_FailedAddLeavesStoreAsItWas ==
  [][(out'.op = "add" /\ BadArgs(out'.args))
       => (out'.err # "none" /\ csvExists' = csvExists /\ csvRows' = csvRows)]_vars

\* C1 (amended): a failing add_transaction raises and leaves the stored rows
\* exactly as they were; an existing file is left alone, and a file that does
\* not exist yet is created holding the header and no row.
C1_FailedAddKeepsRows ==
  [][(out'.op = "add" /\ BadArgs(out'.args))
       => /\ out'.err # "none"
          /\ csvRows' = csvRows
          /\ csvExists'
          /\ ~csvExists => csvRows' = <<>>]_vars

C1_Witness ==
  /\ out.op = "add"
  /\ out.err = "ValueError: amount"
  /\ csvRows # <<>>

\* Whether no row of rows has a negative amount.
NonNegative(rows) == \A i \in 1..Len(rows) : rows[i].amount >= 0

\* Whether rows has no negative amount and no category that reads as missing.
Plain(rows) == NonNegative(rows) /\ \A i \in 1..Len(rows) : rows[i].category \notin NA_VALUES

\* C2: add_transaction stores no negative amount, so every stored transaction
\* has amount >= 0.
C2_StoredAmountsNonNegative == NonNegative(csvRows)

\* C3: a successful add_transaction adds exactly one row, places it last and
\* leaves the earlier rows as they were; no other step changes a stored row.
\* (Stated for stores without a negative amount, so that a violation does not
\* rest on the amounts C2 is about.)
C3_AppendOnly ==
  [][NonNegative(csvRows')
       => IF out'.op = "add" /\ out'.err = "none"
            THEN /\ Len(csvRows') = Len(csvRows) + 1
                 /\ SubSeq(csvRows', 1, Len(csvRows)) = csvRows
                 /\ csvRows'[Len(csvRows')] = AddRow(out'.args)
            ELSE csvRows' = csvRows]_vars

\* C4: with no start date, end date or top-N, the totals category_summary
\* returns sum to the sum of the stored expense amounts, and each category's
\* total is the sum of the stored expense amounts of that category, so that
\* income rows add to no total.
C4_CategoryTotalsSumToExpenses ==
  (/\ out.op = "category"
   /\ out.err = "none"
   /\ out.args.start_date = {}
   /\ out.args.end_date = {}
   /\ out.args.top_n = {})
  => LET isExpense(r) == r.type = S_expense
     IN  /\ SumTotals(out.val) = SumOf(SelectSeq(csvRows, isExpense))
         /\ \A k \in 1..Len(out.val) :
              LET inCat(r) == isExpense(r) /\ LoadedCategory(r) = out.val[k].category
              IN  /\ out.val[k].total = SumOf(SelectSeq(csvRows, inCat))
                  /\ \E i \in 1..Len(csvRows) : inCat(csvRows[i])

C4_Witness ==
  /\ out.op = "category"
  /\ out.err = "none"
  /\ out.args.start_date = {}
  /\ out.args.end_date = {}
  /\ out.args.top_n = {}
  /\ out.val # <<>>
  /\ \E i \in 1..Len(csvRows) : csvRows[i].type = S_income

\* The weekly buckets of out whose span holds the date of stored row i.
BucketsHolding(i) ==
  {k \in 1..Len(out.val) :
     /\ DateLe(out.val[k].week_start, StoredDate(i))
     /\ DateLe(StoredDate(i), out.val[k].week_end)}

\* C5 (as claimed): every stored transaction's date lies in exactly one of the
\* buckets weekly_summaries generates, for any weeks count and any today.
\* (Stated for weeks >= 1, with no bucket at all it fails for every row, and
\* for stores of non-negative amounts and plain categories.)
C5_ExactlyOneBucket ==
  (out.op = "weekly" /\ out.err = "none" /\ out.args.weeks >= 1 /\ Plain(csvRows))
  => \A i \in 1..Len(csvRows) : Cardinality(BucketsHolding(i)) = 1

\* C5 (amended): a stored transaction's date lies in exactly one bucket when it
\* falls between the oldest bucket's week_start and the current week's
\* week_end, and in no bucket otherwise; the buckets' income and expense sum to
\* the amounts of the transactions in that span, each counted once.
C5_OneBucketWithinSpan ==
  (out.op = "weekly" /\ out.err = "none")
  => LET weeks == out.args.weeks
         monday == MondayOrdinal(out.args.today)
         covered(d) ==
           /\ weeks > 0
           /\ monday - 7 * (weeks - 1) <= toordinal(d)
           /\ toordinal(d) <= monday + 6
         inSpan(r) == \A d \in parse_date(r.date) : covered(d)
         counted == [k \in 1..Len(out.val) |->
                       [total |-> out.val[k].income + out.val[k].expense]]
     IN  /\ \A i \in 1..Len(csvRows) :
              Cardinality(BucketsHolding(i)) = IF covered(StoredDate(i)) THEN 1 ELSE 0
         /\ SumTotals(counted) = SumOf(SelectSeq(csvRows, inSpan))

C5_Witness ==
  /\ out.op = "weekly"
  /\ out.err = "none"
  /\ Len(out.val) = 2
  /\ \E i, j \in 1..Len(csvRows) :
       /\ Cardinality(BucketsHolding(i)) = 1
       /\ Cardinality(BucketsHolding(j)) = 0

\* C6: weekly_summaries(weeks) returns exactly weeks entries, most recent
\* first: entry i starts on the Monday of today's week minus 7*i days and ends
\* 6 days later (for today = 2025-06-12 the first is 2025-06-09..2025-06-15),
\* for every store; with no stored row every entry is income = expense = net = 0.
C6_WeeklyEntries ==
  out.op = "weekly"
  => /\ out.err = "none"
     /\ Len(out.val) = out.args.weeks
     /\ \A k \in 1..Len(out.val) :
          /\ toordinal(out.val[k].week_start) = MondayOrdinal(out.args.today) - 7 * (k - 1)
          /\ toordinal(out.val[k].week_end) = toordinal(out.val[k].week_start) + 6
          /\ out.val[k].week_start = fromordinal(toordinal(out.val[k].week_start))
          /\ out.val[k].week_end = fromordinal(toordinal(out.val[k].week_end))
          /\ out.val[k].net = out.val[k].income - out.val[k].expense
          /\ csvRows = <<>>
               => out.val[k].income = 0 /\ out.val[k].expense = 0 /\ out.val[k].net = 0
     /\ out.args.weeks >= 1
          => /\ out.val[1].week_start = week_bounds_for(out.args.today).start
             /\ out.val[1].week_end = week_bounds_for(out.args.today).end
     /\ (out.args.today = Date(2025, 6, 12) /\ out.args.weeks >= 1)
          => /\ out.val[1].week_start = Date(2025, 6, 9)
             /\ out.val[1].week_end = Date(2025, 6, 15)

C6_Witness ==
  /\ out.op = "weekly"
  /\ Len(out.val) = 2
  /\ out.args.today = Date(2025, 6, 12)
  /\ csvRows = <<>>

\* The expense categories in the date range of the last category_summary call,
\* with their totals.
GroupsInRange ==
  LET df == read_csv(csvRows)
      frame == [i \in 1..Len(df) |-> Typed(df[i])]
  IN  GroupSum(Expenses(InRange(frame, out.args.start_date, out.args.end_date)))

\* C7: category_summary returns the categories by descending total, and with a
\* top-N of any N >= 0 (0 included) exactly min(N, number of expense categories
\* in range) of them, none omitted having a larger total than one included.
\* (Stated for stores of non-negative amounts and plain categories.)
C7_TopNTruncates ==
  (out.op = "category" /\ out.err = "none" /\ Plain(csvRows))
  => /\ \A k \in 1..(Len(out.val) - 1) : out.val[k].total >= out.val[k + 1].total
     /\ Range(out.val) \subseteq GroupsInRange
     /\ \A n \in out.args.top_n :
          /\ Len(out.val) = Min({n, Cardinality(GroupsInRange)})
          /\ \A g \in GroupsInRange \ Range(out.val) :
               \A e \in Range(out.val) : g.total <= e.total

\* The stable ascending-by-date ordering of the frame df.
StableSort(df) ==
  LET p == CHOOSE q \in Perms(1..Len(df)) :
             \A i, j \in 1..Len(df) :
               i < j => \/ toordinal(df[q[i]].date) < toordinal(df[q[j]].date)
                        \/ df[q[i]].date = df[q[j]].date /\ q[i] < q[j]
  IN  [i \in 1..Len(df) |-> df[p[i]]]

C9_LoadParsesAllFormats ==
  (/\ out.op = "view"
   /\ \A i \in 1..Len(csvRows) : parse_date(csvRows[i].date) # {})
  => /\ out.err = "none"
     /\ Len(out.val) = Len(csvRows)
     /\ {out.val[k].date : k \in 1..Len(out.val)}
          = UNION {parse_date(csvRows[i].date) : i \in 1..Len(csvRows)}

\* C10: after a successful add_transaction the next load succeeds and holds a
\* record with the lowercase kind, the parsed date, the amount rounded to 2
\* decimals and the trimmed category ("uncategorized" when blank); every loaded
\* record has kind income or expense and a non-empty category.
C10_AddThenLoad ==
  (out.op = "add" /\ out.err = "none")
  => /\ ~LoadError(csvRows)
     /\ \A df \in load_transactions_df(csvRows) :
          /\ \E k \in 1..Len(df) :
               /\ df[k].type = lower(strip(out.args.tx_type))
               /\ df[k].type \in {S_income, S_expense}
               /\ df[k].date \in parse_date(out.args.tx_date)
               /\ df[k].amount = Round2(out.args.amount.milli)
               /\ df[k].category =
                    (IF strip(out.args.category) = <<>>
                       THEN S_uncategorized ELSE strip(out.args.category))
          /\ \A k \in 1..Len(df) :
               df[k].type \in {S_income, S_expense} /\ df[k].category # <<>>

====
